---- MODULE Spec2Model ----
(***************************************************************************)
(* Model of pymaker/oasis.py: the OasisDEX client (Order, SimpleMarket,    *)
(* MatchingMarket) together with the external ledger it queries.           *)
(*                                                                         *)
(* The ledger (the deployed market contract) is the environment: it        *)
(* assigns order ids sequentially from 1, keeps an order's slot while it   *)
(* is active and deletes the slot (all fields zero, active = FALSE) when   *)
(* the order is completely taken or cancelled.                             *)
(***************************************************************************)
EXTENDS Integers, Sequences, FiniteSets, TLC

\* ------------------------------------------------------------------ bounds

\* The ledger creates at most MaxOrders orders (ids 1..MaxOrders).
MaxOrders == 2

\* Raw Wad amounts of orders placed on the ledger are 1..MaxAmount.
MaxAmount == 2

\* The number of concurrent callers of one market instance.
NumThreads == 2

\* Raw Wad amounts of the Orders compared and priced on their own.
MaxValue == 6

\* The fixed-point scale of Wad (10**18 in pymaker.numeric), reduced.
Scale == 10

Tokens == {"DAI", "WETH"}

Makers == {"maker"}

\* Addresses of market contracts an Order can come from.
Markets == {"otc", "otc2"}

\* The address of the market instance whose ledger is modelled.
address == "otc"

\* Order ids a caller passes to get_order: 0, created ids, ids not yet created.
OrderIds == 0..MaxOrders

\* ------------------------------------------------------------------ Wad

\* Marks the result of an operation that raised ZeroDivisionError.
ZeroDivisionError == -1

\* Wad / Wad: truncating fixed-point division of raw values.
WadDiv(a, b) == IF b = 0 THEN ZeroDivisionError ELSE (a * Scale) \div b

\* Wad * Wad: truncating fixed-point multiplication of raw values.
WadMul(a, b) == IF a = ZeroDivisionError \/ b = ZeroDivisionError
                THEN ZeroDivisionError
                ELSE (a * b) \div Scale

\* ------------------------------------------------------------------ Order

Order(market, order_id, maker, pay_token, pay_amount, buy_token, buy_amount, timestamp) ==
    [market |-> market, order_id |-> order_id, maker |-> maker,
     pay_token |-> pay_token, pay_amount |-> pay_amount,
     buy_token |-> buy_token, buy_amount |-> buy_amount,
     timestamp |-> timestamp]

\* sell_to_buy_price with the operands exchanged.
sell_to_buy_price_swapped(o) == WadDiv(o.buy_amount, o.pay_amount)

sell_to_buy_price(o) == WadDiv(o.pay_amount, o.buy_amount)

buy_to_sell_price(o) == WadDiv(o.buy_amount, o.pay_amount)

\* __eq__ comparing the order ids alone.
Order_eq_id_only(self, other) == self.order_id = other.order_id

Order_eq(self, other) == self.market = other.market /\ self.order_id = other.order_id

Order_hash(self) == self.order_id

\* ------------------------------------------------------------------ ledger

\* The tuple the ledger's offers(id) returns, indexed from 1 here:
\* <<pay_amt, pay_gem, buy_amt, buy_gem, owner, active, timestamp>>.
NoAddress == "0x0"

EmptyOffer == <<0, NoAddress, 0, NoAddress, NoAddress, FALSE, 0>>

Offer(pay_amt, pay_gem, buy_amt, buy_gem, owner, timestamp) ==
    <<pay_amt, pay_gem, buy_amt, buy_gem, owner, TRUE, timestamp>>

\* array[i] of the source (0-based) is array[i + 1] here.
At(array, i) == array[i + 1]

VARIABLES
    last_offer_id,   \* ledger: id of the last order created, 0 if none
    offers,          \* ledger: order id -> offer tuple
    none_orders,     \* SimpleMarket._none_orders
    call,            \* the last client call: its arguments and its outcome
    returned_none,   \* history: ids for which get_order has returned None
    threads          \* concurrent callers: each one's position in its call

vars == <<last_offer_id, offers, none_orders, call, returned_none, threads>>

ledger == <<last_offer_id, offers>>

IsActive(id) == id \in DOMAIN offers /\ At(offers[id], 5) = TRUE

ActiveIds == {id \in 1..last_offer_id : IsActive(id)}

\* ------------------------------------------------------------------ calls

\* The value of `call` when the last step was not a client call. After a call
\* the record holds its arguments (fail: which of its remote calls the
\* transport fails, 0 for none) and its outcome (raised: the error raised, ""
\* when it returned; queried: the ids whose offers were queried, in order;
\* last_id_reads: the number of last_offer_id queries; submitted: the number
\* of transactions it sent).
NoCall ==
    [op |-> "none", order_id |-> 0,
     pay_token |-> NoAddress, pay_amount |-> 0,
     buy_token |-> NoAddress, buy_amount |-> 0, pos |-> <<>>,
     raised |-> "", orders |-> <<>>, value |-> 0, intent |-> <<>>,
     queried |-> <<>>, last_id_reads |-> 0, fail |-> 0,
     sell_to_buy |-> 0, buy_to_sell |-> 0, eq |-> FALSE, hashes |-> <<>>,
     submitted |-> 0]

\* An optional value (Optional[Order], pos: int = None) is <<>> for None and
\* <<v>> for the value v.
None == <<>>

\* ------------------------------------------------------------------ SimpleMarket

\* self._contract.call().last_offer_id(), the (calls + 1)-th remote call of
\* the running operation; the fail-th remote call raises (0: none does).
get_last_order_id(calls, fail) ==
    IF calls + 1 = fail
    THEN [raised |-> TRUE, value |-> 0, calls |-> calls + 1]
    ELSE [raised |-> FALSE, value |-> last_offer_id, calls |-> calls + 1]

\* The ledger's answer to offers(order_id): an empty slot for every id that
\* holds no active order.
contract_offers(order_id) ==
    IF order_id \in DOMAIN offers THEN offers[order_id] ELSE EmptyOffer

\* is_absent with the test inverted: `array[5] is True`.
is_absent_inverted(array) == At(array, 5) = TRUE

\* The branch of get_order that caches an id: `array[5] is not True`.
is_absent(array) == At(array, 5) # TRUE

\* The active branch of get_order: the Order built from the ledger's tuple.
order_from(order_id, array) ==
    Order(address, order_id, At(array, 4), At(array, 1), At(array, 0),
          At(array, 3), At(array, 2), At(array, 6))

\* get_order without the lookup in _none_orders: every call queries the ledger.
get_order_uncached(none, order_id, calls, fail) ==
    IF calls + 1 = fail
    THEN [raised |-> TRUE, ret |-> None, none |-> none,
          queried |-> <<order_id>>, calls |-> calls + 1]
    ELSE IF is_absent(contract_offers(order_id))
    THEN [raised |-> FALSE, ret |-> None, none |-> none \cup {order_id},
          queried |-> <<order_id>>, calls |-> calls + 1]
    ELSE [raised |-> FALSE, ret |-> <<order_from(order_id, contract_offers(order_id))>>,
          none |-> none, queried |-> <<order_id>>, calls |-> calls + 1]

\* get_order with the failure of the query caught and answered by None.
get_order_swallow(none, order_id, calls, fail) ==
    IF order_id \in none
    THEN [raised |-> FALSE, ret |-> None, none |-> none,
          queried |-> <<>>, calls |-> calls]
    ELSE IF calls + 1 = fail \/ is_absent(contract_offers(order_id))
    THEN [raised |-> FALSE, ret |-> None, none |-> none \cup {order_id},
          queried |-> <<order_id>>, calls |-> calls + 1]
    ELSE [raised |-> FALSE, ret |-> <<order_from(order_id, contract_offers(order_id))>>,
          none |-> none, queried |-> <<order_id>>, calls |-> calls + 1]

\* get_order with _none_orders = none. Returns the outcome, the new
\* _none_orders and the ids queried on the ledger.
get_order(none, order_id, calls, fail) ==
    IF order_id \in none
    THEN [raised |-> FALSE, ret |-> None, none |-> none,
          queried |-> <<>>, calls |-> calls]
    ELSE IF calls + 1 = fail
    THEN [raised |-> TRUE, ret |-> None, none |-> none,
          queried |-> <<order_id>>, calls |-> calls + 1]
    ELSE LET array == contract_offers(order_id) IN
         IF is_absent(array)
         THEN [raised |-> FALSE, ret |-> None, none |-> none \cup {order_id},
               queried |-> <<order_id>>, calls |-> calls + 1]
         ELSE [raised |-> FALSE, ret |-> <<order_from(order_id, array)>>,
               none |-> none, queried |-> <<order_id>>, calls |-> calls + 1]

\* [self.get_order(order_id + 1) for order_id in range(last)], from order_id
\* on; r carries the list built so far and the state of the instance.
RECURSIVE get_orders_loop(_, _, _, _)
get_orders_loop(r, order_id, last, fail) ==
    IF order_id > last \/ r.raised
    THEN r
    ELSE CHOOSE result \in
             {get_orders_loop([raised |-> g.raised,
                               orders |-> Append(r.orders, g.ret),
                               none |-> g.none,
                               queried |-> r.queried \o g.queried,
                               calls |-> g.calls],
                              order_id + 1, last, fail) :
                  g \in {get_order(r.none, order_id, r.calls, fail)}} : TRUE

\* [order for order in orders if order is not None]
RECURSIVE not_none(_)
not_none(orders) ==
    IF orders = <<>> THEN <<>>
    ELSE (IF Head(orders) # None THEN Head(orders) ELSE <<>>) \o not_none(Tail(orders))

\* The list comprehension of get_orders, after get_last_order_id returned l.
get_orders_list(none, l, fail) ==
    CHOOSE result \in
        {[raised |-> r.raised,
          orders |-> IF r.raised THEN <<>> ELSE not_none(r.orders),
          none |-> r.none, queried |-> r.queried, calls |-> r.calls] :
             r \in {get_orders_loop([raised |-> FALSE, orders |-> <<>>, none |-> none,
                                     queried |-> <<>>, calls |-> l.calls],
                                    1, l.value, fail)}} : TRUE

get_orders(none, fail) ==
    CHOOSE result \in
        {IF l.raised
         THEN [raised |-> TRUE, orders |-> <<>>, none |-> none,
               queried |-> <<>>, calls |-> l.calls]
         ELSE get_orders_list(none, l, fail) :
             l \in {get_last_order_id(0, fail)}} : TRUE

Raised(r) == IF r.raised THEN "ExternalQueryFailed" ELSE ""

\* SimpleMarket.make: the asserts, then the Transact that is returned.
make(pay_token, pay_amount, buy_token, buy_amount) ==
    IF ~(pay_amount > 0) \/ ~(buy_amount > 0)
    THEN [raised |-> "AssertionError", intent |-> <<>>]
    ELSE [raised |-> "",
          intent |-> <<"make", pay_token, buy_token, pay_amount, buy_amount>>]

\* int_to_bytes32(value): the 32 bytes of value, most significant first
\* (values below 2^32: the first 28 bytes are 0).
int_to_bytes32(value) ==
    [i \in 1..32 |-> IF i <= 28 THEN 0 ELSE (value \div (256 ^ (32 - i))) % 256]

\* Transact(origin, web3, abi, address, contract, function_name, parameters):
\* the handle of a pending action, which names the contract function and its
\* parameters; building it queries nothing and sends nothing.
Transact(function_name, parameters) == <<function_name>> \o parameters

\* SimpleMarket.bump: the Transact that is returned.
bump(order_id) ==
    [raised |-> "", intent |-> Transact("bump", <<int_to_bytes32(order_id)>>),
     queried |-> <<>>, calls |-> 0, submitted |-> 0]

\* SimpleMarket.take with the quantity asserted positive, as make asserts its
\* amounts.
take_positive_quantity(order_id, quantity) ==
    IF ~(quantity > 0)
    THEN [raised |-> "AssertionError", intent |-> <<>>,
          queried |-> <<>>, calls |-> 0, submitted |-> 0]
    ELSE [raised |-> "",
          intent |-> Transact("take", <<int_to_bytes32(order_id), quantity>>),
          queried |-> <<>>, calls |-> 0, submitted |-> 0]

\* SimpleMarket.take: the Transact that is returned; the quantity is not
\* compared with anything.
take(order_id, quantity) ==
    [raised |-> "",
     intent |-> Transact("take", <<int_to_bytes32(order_id), quantity>>),
     queried |-> <<>>, calls |-> 0, submitted |-> 0]

\* SimpleMarket.kill: the Transact that is returned.
kill(order_id) ==
    [raised |-> "", intent |-> Transact("kill", <<int_to_bytes32(order_id)>>),
     queried |-> <<>>, calls |-> 0, submitted |-> 0]

\* ------------------------------------------------------------------ MatchingMarket

\* The key of position's sort and filter: o.pay_amount / o.buy_amount.
price(o) == WadDiv(o.pay_amount, o.buy_amount)

\* sorted(orders, key=price): a stable sort. The element at index i goes to
\* the place after every element with a lower price and after the elements of
\* the same price that precede it in the list.
sorted(s) ==
    LET place(i) == 1 + Cardinality({j \in 1..Len(s) :
                            \/ price(s[j]) < price(s[i])
                            \/ price(s[j]) = price(s[i]) /\ j < i})
    IN  [k \in 1..Len(s) |-> s[CHOOSE i \in 1..Len(s) : place(i) = k]]

\* The filter of position: same pair, and a price not below the new order's.
position_filter(o, pay_token, pay_amount, buy_token, buy_amount) ==
    /\ o.pay_token = pay_token
    /\ o.buy_token = buy_token
    /\ price(o) >= WadDiv(pay_amount, buy_amount)

\* MatchingMarket.position on the list get_orders returned. The divisions of
\* the filter are evaluated for the orders of the same pair only (`and`).
position_of(all_orders, pay_token, pay_amount, buy_token, buy_amount) ==
    LET same_pair == SelectSeq(all_orders,
                         LAMBDA o : o.pay_token = pay_token /\ o.buy_token = buy_token)
        div_by_zero == \E i \in 1..Len(same_pair) :
                          same_pair[i].buy_amount = 0 \/ buy_amount = 0
        orders == SelectSeq(all_orders,
                      LAMBDA o : position_filter(o, pay_token, pay_amount,
                                                 buy_token, buy_amount))
        sorted_orders == sorted(orders)
    IN  IF div_by_zero THEN [raised |-> "ZeroDivisionError", value |-> 0]
        ELSE [raised |-> "",
              value |-> IF Len(sorted_orders) > 0 THEN sorted_orders[1].order_id ELSE 0]

position(none, pay_token, pay_amount, buy_token, buy_amount, fail) ==
    CHOOSE result \in
        {IF g.raised
         THEN [raised |-> Raised(g), value |-> 0,
               none |-> g.none, queried |-> g.queried, calls |-> g.calls]
         ELSE CHOOSE returned \in
                  {[raised |-> p.raised, value |-> p.value,
                    none |-> g.none, queried |-> g.queried, calls |-> g.calls] :
                       p \in {position_of(g.orders, pay_token, pay_amount,
                                          buy_token, buy_amount)}} : TRUE :
             g \in {get_orders(none, fail)}} : TRUE

\* MatchingMarket.make with the asserts on the amounts placed after the
\* position has been computed.
matching_make_late_assert(none, pay_token, pay_amount, buy_token, buy_amount, pos, fail) ==
    IF pos = None
    THEN CHOOSE result \in
             {[raised |-> IF p.raised # "" THEN p.raised
                          ELSE IF ~(pay_amount > 0) \/ ~(buy_amount > 0)
                          THEN "AssertionError" ELSE "",
               intent |-> IF p.raised # "" \/ ~(pay_amount > 0) \/ ~(buy_amount > 0)
                          THEN <<>>
                          ELSE <<"offer", pay_amount, pay_token, buy_amount, buy_token,
                                 p.value>>,
               none |-> p.none, queried |-> p.queried, calls |-> p.calls] :
                  p \in {position(none, pay_token, pay_amount, buy_token, buy_amount,
                                  fail)}} : TRUE
    ELSE IF ~(pos[1] >= 0) \/ ~(pay_amount > 0) \/ ~(buy_amount > 0)
    THEN [raised |-> "AssertionError", intent |-> <<>>, none |-> none,
          queried |-> <<>>, calls |-> 0]
    ELSE [raised |-> "",
          intent |-> <<"offer", pay_amount, pay_token, buy_amount, buy_token, pos[1]>>,
          none |-> none, queried |-> <<>>, calls |-> 0]

\* MatchingMarket.make with the position computed whether or not the caller
\* gave one.
matching_make_always_position(none, pay_token, pay_amount, buy_token, buy_amount, pos, fail) ==
    IF ~(pay_amount > 0) \/ ~(buy_amount > 0) \/ (pos # None /\ ~(pos[1] >= 0))
    THEN [raised |-> "AssertionError", intent |-> <<>>, none |-> none,
          queried |-> <<>>, calls |-> 0]
    ELSE CHOOSE result \in
             {[raised |-> p.raised,
               intent |-> IF p.raised # "" THEN <<>>
                          ELSE <<"offer", pay_amount, pay_token, buy_amount, buy_token,
                                 p.value>>,
               none |-> p.none, queried |-> p.queried, calls |-> p.calls] :
                  p \in {position(none, pay_token, pay_amount, buy_token, buy_amount,
                                  fail)}} : TRUE

\* MatchingMarket.make: the asserts, the position when pos is None, then the
\* Transact that is returned.
matching_make(none, pay_token, pay_amount, buy_token, buy_amount, pos, fail) ==
    LET unchanged == [raised |-> "AssertionError", intent |-> <<>>, none |-> none,
                      queried |-> <<>>, calls |-> 0]
    IN
    IF ~(pay_amount > 0) \/ ~(buy_amount > 0)
    THEN unchanged
    ELSE IF pos = None
    THEN CHOOSE result \in
             {[raised |-> p.raised,
               intent |-> IF p.raised # "" THEN <<>>
                          ELSE <<"offer", pay_amount, pay_token, buy_amount, buy_token,
                                 p.value>>,
               none |-> p.none, queried |-> p.queried, calls |-> p.calls] :
                  p \in {position(none, pay_token, pay_amount, buy_token, buy_amount,
                                  fail)}} : TRUE
    ELSE IF ~(pos[1] >= 0)
    THEN unchanged
    ELSE [raised |-> "",
          intent |-> <<"offer", pay_amount, pay_token, buy_amount, buy_token, pos[1]>>,
          none |-> none, queried |-> <<>>, calls |-> 0]

\* ------------------------------------------------------------------ the ledger's transitions

\* offer / make on the contract: a new order takes the next id.
LedgerMake(maker, pay_gem, pay_amt, buy_gem, buy_amt) ==
    /\ call = NoCall
    /\ last_offer_id < MaxOrders
    /\ pay_gem # buy_gem
    /\ last_offer_id' = last_offer_id + 1
    /\ offers' = [offers EXCEPT ![last_offer_id + 1] =
                     Offer(pay_amt, pay_gem, buy_amt, buy_gem, maker, last_offer_id + 1)]
    /\ UNCHANGED <<none_orders, call, returned_none, threads>>

\* take on the contract: a partial fill keeps the order with reduced amounts,
\* a complete fill deletes it.
LedgerTake(id, quantity) ==
    /\ call = NoCall
    /\ IsActive(id)
    /\ quantity <= At(offers[id], 0)
    /\ LET pay_amt == At(offers[id], 0)
           buy_amt == At(offers[id], 2)
           spend == (quantity * buy_amt) \div pay_amt
       IN  offers' = [offers EXCEPT ![id] =
                         IF quantity = pay_amt THEN EmptyOffer
                         ELSE [[@ EXCEPT ![1] = pay_amt - quantity]
                                  EXCEPT ![3] = buy_amt - spend]]
    /\ UNCHANGED <<last_offer_id, none_orders, call, returned_none, threads>>

\* kill on the contract: the order is deleted.
LedgerKill(id) ==
    /\ call = NoCall
    /\ IsActive(id)
    /\ offers' = [offers EXCEPT ![id] = EmptyOffer]
    /\ UNCHANGED <<last_offer_id, none_orders, call, returned_none, threads>>

Ledger ==
    \/ \E maker \in Makers, pay_gem \in Tokens, buy_gem \in Tokens,
          pay_amt \in 1..MaxAmount, buy_amt \in 1..MaxAmount :
          LedgerMake(maker, pay_gem, pay_amt, buy_gem, buy_amt)
    \/ \E id \in 1..MaxOrders, quantity \in 1..MaxAmount : LedgerTake(id, quantity)
    \/ \E id \in 1..MaxOrders : LedgerKill(id)

\* A ledger whose orders only go from active to inactive: no order is
\* created; orders are partly taken, completely taken, cancelled.
LedgerCloses ==
    \/ \E id \in 1..MaxOrders, quantity \in 1..MaxAmount : LedgerTake(id, quantity)
    \/ \E id \in 1..MaxOrders : LedgerKill(id)

\* A ledger with the orders of one pair: DAI sold for 1 WETH.
LedgerOnePair ==
    \/ \E pay_amt \in 1..MaxAmount : LedgerMake("maker", "DAI", pay_amt, "WETH", 1)
    \/ LedgerCloses

\* ------------------------------------------------------------------ client calls, one caller

\* Ids of the orders of a list, in the list's order.
Ids(orders) == [i \in 1..Len(orders) |-> orders[i].order_id]

Range(s) == {s[i] : i \in 1..Len(s)}

GetLastOrderId(fail) ==
    /\ call = NoCall
    /\ \E l \in {get_last_order_id(0, fail)} :
       /\ call' = [NoCall EXCEPT !.op = "get_last_order_id", !.raised = Raised(l),
                                 !.value = l.value, !.last_id_reads = 1,
                                 !.fail = fail]
       /\ UNCHANGED <<ledger, none_orders, returned_none, threads>>

GetOrder(order_id, fail) ==
    /\ call = NoCall
    /\ \E g \in {get_order(none_orders, order_id, 0, fail)} :
       /\ none_orders' = g.none
       /\ call' = [NoCall EXCEPT !.op = "get_order", !.order_id = order_id,
                                 !.raised = Raised(g), !.orders = g.ret,
                                 !.queried = g.queried, !.fail = fail]
       /\ returned_none' = IF ~g.raised /\ g.ret = None
                           THEN returned_none \cup {order_id} ELSE returned_none
       /\ UNCHANGED <<ledger, threads>>

GetOrders(fail) ==
    /\ call = NoCall
    /\ \E g \in {get_orders(none_orders, fail)} :
       /\ none_orders' = g.none
       /\ call' = [NoCall EXCEPT !.op = "get_orders", !.raised = Raised(g),
                                 !.orders = g.orders, !.queried = g.queried,
                                 !.last_id_reads = 1, !.fail = fail]
       /\ returned_none' = returned_none \cup (g.none \ none_orders)
       /\ UNCHANGED <<ledger, threads>>

Position(pay_token, pay_amount, buy_token, buy_amount, fail) ==
    /\ call = NoCall
    /\ \E p \in {position(none_orders, pay_token, pay_amount, buy_token, buy_amount, fail)} :
       /\ none_orders' = p.none
       /\ call' = [NoCall EXCEPT !.op = "position",
                                 !.pay_token = pay_token, !.pay_amount = pay_amount,
                                 !.buy_token = buy_token, !.buy_amount = buy_amount,
                                 !.raised = p.raised, !.value = p.value,
                                 !.queried = p.queried, !.last_id_reads = 1,
                                 !.fail = fail]
       /\ returned_none' = returned_none \cup (p.none \ none_orders)
       /\ UNCHANGED <<ledger, threads>>

SimpleMake(pay_token, pay_amount, buy_token, buy_amount) ==
    /\ call = NoCall
    /\ \E m \in {make(pay_token, pay_amount, buy_token, buy_amount)} :
       /\ call' = [NoCall EXCEPT !.op = "make",
                                 !.pay_token = pay_token, !.pay_amount = pay_amount,
                                 !.buy_token = buy_token, !.buy_amount = buy_amount,
                                 !.raised = m.raised, !.intent = m.intent]
       /\ UNCHANGED <<ledger, none_orders, returned_none, threads>>

\* bump, take and kill called by the caller: the outcome is the handle; what
\* the method queried and sent is recorded with it.
Bump(order_id) ==
    /\ call = NoCall
    /\ \E m \in {bump(order_id)} :
       /\ call' = [NoCall EXCEPT !.op = "bump", !.order_id = order_id,
                                 !.raised = m.raised, !.intent = m.intent,
                                 !.queried = m.queried, !.last_id_reads = m.calls,
                                 !.submitted = m.submitted]
       /\ UNCHANGED <<ledger, none_orders, returned_none, threads>>

Take(order_id, quantity) ==
    /\ call = NoCall
    /\ \E m \in {take(order_id, quantity)} :
       /\ call' = [NoCall EXCEPT !.op = "take", !.order_id = order_id,
                                 !.pay_amount = quantity,
                                 !.raised = m.raised, !.intent = m.intent,
                                 !.queried = m.queried, !.last_id_reads = m.calls,
                                 !.submitted = m.submitted]
       /\ UNCHANGED <<ledger, none_orders, returned_none, threads>>

Kill(order_id) ==
    /\ call = NoCall
    /\ \E m \in {kill(order_id)} :
       /\ call' = [NoCall EXCEPT !.op = "kill", !.order_id = order_id,
                                 !.raised = m.raised, !.intent = m.intent,
                                 !.queried = m.queried, !.last_id_reads = m.calls,
                                 !.submitted = m.submitted]
       /\ UNCHANGED <<ledger, none_orders, returned_none, threads>>

MatchingMake(pay_token, pay_amount, buy_token, buy_amount, pos, fail) ==
    /\ call = NoCall
    /\ \E m \in {matching_make(none_orders, pay_token, pay_amount, buy_token, buy_amount,
                               pos, fail)} :
       /\ none_orders' = m.none
       /\ call' = [NoCall EXCEPT !.op = "matching_make",
                                 !.pay_token = pay_token, !.pay_amount = pay_amount,
                                 !.buy_token = buy_token, !.buy_amount = buy_amount,
                                 !.pos = pos,
                                 !.raised = m.raised, !.intent = m.intent,
                                 !.queried = m.queried,
                                 !.last_id_reads = IF m.calls > 0 THEN 1 ELSE 0,
                                 !.fail = fail]
       /\ returned_none' = returned_none \cup (m.none \ none_orders)
       /\ UNCHANGED <<ledger, threads>>

\* The two price properties of an Order, read by a caller.
OrderPrices(o) ==
    /\ call = NoCall
    /\ call' = [NoCall EXCEPT !.op = "prices", !.orders = <<o>>,
                              !.sell_to_buy = sell_to_buy_price(o),
                              !.buy_to_sell = buy_to_sell_price(o)]
    /\ UNCHANGED <<ledger, none_orders, returned_none, threads>>

\* self == other and the two hashes, for two Orders a caller holds.
OrderCompare(self, other) ==
    /\ call = NoCall
    /\ call' = [NoCall EXCEPT !.op = "eq", !.orders = <<self, other>>,
                              !.eq = Order_eq(self, other),
                              !.hashes = <<Order_hash(self), Order_hash(other)>>]
    /\ UNCHANGED <<ledger, none_orders, returned_none, threads>>

\* The caller takes the outcome of its call; the next step is a new call or
\* a transition of the ledger.
Return ==
    /\ call # NoCall
    /\ call' = NoCall
    /\ UNCHANGED <<ledger, none_orders, returned_none, threads>>

\* Which remote call of an operation fails: none (0) or the k-th.
Fails == 0..(MaxOrders + 1)

Amounts == 0..MaxAmount

Positions == {<<n>> : n \in (-1)..1}

NoThreads == <<>>

Init ==
    /\ last_offer_id = 0
    /\ offers = [id \in 1..MaxOrders |-> EmptyOffer]
    /\ none_orders = {}
    /\ call = NoCall
    /\ returned_none = {}
    /\ threads = NoThreads

\* The order repository: the ledger and one caller of the read operations.
Next ==
    \/ Ledger
    \/ \E fail \in 0..1 : GetLastOrderId(fail)
    \/ \E order_id \in OrderIds, fail \in 0..1 : GetOrder(order_id, fail)
    \/ \E fail \in Fails : GetOrders(fail)
    \/ Return

Spec == Init /\ [][Next]_vars

\* The position estimator: the ledger and one caller of get_order and position.
NextMatching ==
    \/ Ledger
    \/ \E order_id \in OrderIds : GetOrder(order_id, 0)
    \/ \E pay_token \in Tokens, buy_token \in Tokens,
          pay_amount \in Amounts, buy_amount \in Amounts, fail \in Fails :
          Position(pay_token, pay_amount, buy_token, buy_amount, fail)
    \/ Return

SpecMatching == Init /\ [][NextMatching]_vars

\* The create commands: a ledger with the orders of one pair and one caller of
\* SimpleMarket.make and MatchingMarket.make with every choice of tokens.
NextMake ==
    \/ LedgerOnePair
    \/ \E pay_token \in Tokens, buy_token \in Tokens,
          pay_amount \in Amounts, buy_amount \in Amounts :
          SimpleMake(pay_token, pay_amount, buy_token, buy_amount)
    \/ \E pay_token \in Tokens, buy_token \in Tokens,
          pay_amount \in Amounts, buy_amount \in Amounts,
          pos \in Positions \cup {None}, fail \in 0..1 :
          MatchingMake(pay_token, pay_amount, buy_token, buy_amount, pos, fail)
    \/ Return

SpecMake == Init /\ [][NextMake]_vars

\* Quantities of take: zero, below, equal to and above what an order sells.
Quantities == 0..(MaxAmount + 1)

\* The command builders of SimpleMarket: a ledger with the orders of one pair
\* and one caller of make, bump, take and kill, who also reads orders.
NextCommand ==
    \/ LedgerOnePair
    \/ \E order_id \in OrderIds : GetOrder(order_id, 0)
    \/ \E pay_token \in Tokens, buy_token \in Tokens,
          pay_amount \in Amounts, buy_amount \in Amounts :
          SimpleMake(pay_token, pay_amount, buy_token, buy_amount)
    \/ \E order_id \in OrderIds : Bump(order_id)
    \/ \E order_id \in OrderIds, quantity \in Quantities : Take(order_id, quantity)
    \/ \E order_id \in OrderIds : Kill(order_id)
    \/ Return

SpecCommand == Init /\ [][NextCommand]_vars

\* Orders whose prices are read: every valid pair of raw amounts.
PricedOrders ==
    {Order(address, 1, "maker", "DAI", pay_amount, "WETH", buy_amount, 1) :
        pay_amount \in 0..MaxValue, buy_amount \in 1..MaxValue}

\* Orders that are compared: every market, id, maker, pair and timestamp.
ComparedOrders ==
    {Order(market, order_id, maker, pay_token, pay_amount, buy_token, 1, timestamp) :
        market \in Markets, order_id \in OrderIds, maker \in {"maker", "taker"},
        pay_token \in Tokens, buy_token \in {"DAI"}, pay_amount \in 1..2,
        timestamp \in 1..2}

\* The Order class on its own: a caller reading prices and comparing Orders.
NextOrder ==
    \/ \E o \in PricedOrders : OrderPrices(o)
    \/ \E self \in ComparedOrders, other \in ComparedOrders : OrderCompare(self, other)
    \/ Return

SpecOrder == Init /\ [][NextOrder]_vars

\* ------------------------------------------------------------------ concurrent callers

\* get_order and get_orders run by several callers of one instance, one
\* statement at a time: the lookup in _none_orders, the offers query, the
\* insert into _none_orders or the construction of the Order.

Threads == 1..NumThreads

\* A caller outside any call. In a call: pc is the statement it executes next,
\* order_id the id get_order was called with, last the value of
\* get_last_order_id(), array the ledger's answer, rets the list get_orders
\* has built. alone is history: for each get_order of the call, what
\* get_order run alone would have returned at the moment of its query (of its
\* lookup, when it made no query).
IdleThread ==
    [pc |-> "idle", op |-> "none", order_id |-> 0, last |-> 0,
     array |-> EmptyOffer, rets |-> <<>>, alone |-> <<>>,
     result |-> <<>>, raised |-> ""]

\* returns with the end of the enumeration of get_orders decided by the
\* ledger's last id at that moment, not by the one read at the start.
returns_rereads_last_id(th, ret) ==
    IF th.op = "get_order"
    THEN [th EXCEPT !.pc = "done", !.result = ret]
    ELSE IF th.order_id >= last_offer_id
    THEN [th EXCEPT !.pc = "done", !.rets = Append(th.rets, ret),
                    !.result = not_none(Append(th.rets, ret))]
    ELSE [th EXCEPT !.pc = "lookup", !.rets = Append(th.rets, ret),
                    !.order_id = th.order_id + 1]

\* get_order returns ret to the caller th: the end of a get_order call, or the
\* next element of the list of get_orders.
returns(th, ret) ==
    IF th.op = "get_order"
    THEN [th EXCEPT !.pc = "done", !.result = ret]
    ELSE IF th.order_id = th.last
    THEN [th EXCEPT !.pc = "done", !.rets = Append(th.rets, ret),
                    !.result = not_none(Append(th.rets, ret))]
    ELSE [th EXCEPT !.pc = "lookup", !.rets = Append(th.rets, ret),
                    !.order_id = th.order_id + 1]

CallGetOrder(t, order_id) ==
    /\ threads[t].pc = "idle"
    /\ threads' = [threads EXCEPT ![t] =
                      [IdleThread EXCEPT !.pc = "lookup", !.op = "get_order",
                                         !.order_id = order_id]]
    /\ UNCHANGED <<ledger, none_orders, call, returned_none>>

CallGetOrders(t) ==
    /\ threads[t].pc = "idle"
    /\ threads' = [threads EXCEPT ![t] =
                      [IdleThread EXCEPT !.pc = "last_id", !.op = "get_orders"]]
    /\ UNCHANGED <<ledger, none_orders, call, returned_none>>

\* range(self.get_last_order_id())
ReadLastId(t, fail) ==
    /\ threads[t].pc = "last_id"
    /\ \E l \in {get_last_order_id(0, fail)} :
          threads' = [threads EXCEPT ![t] =
              IF l.raised
              THEN [@ EXCEPT !.pc = "done", !.raised = Raised(l)]
              ELSE IF l.value = 0
              THEN [@ EXCEPT !.pc = "done", !.last = 0, !.result = <<>>]
              ELSE [@ EXCEPT !.pc = "lookup", !.last = l.value, !.order_id = 1]]
    /\ UNCHANGED <<ledger, none_orders, call, returned_none>>

\* if order_id in self._none_orders: return None
Lookup(t) ==
    /\ threads[t].pc = "lookup"
    /\ threads' = [threads EXCEPT ![t] =
                      IF @.order_id \in none_orders
                      THEN returns([@ EXCEPT !.alone = Append(@, None)], None)
                      ELSE [@ EXCEPT !.pc = "query"]]
    /\ UNCHANGED <<ledger, none_orders, call, returned_none>>

\* array = self._contract.call().offers(order_id)
Query(t, fail) ==
    /\ threads[t].pc = "query"
    /\ threads' = [threads EXCEPT ![t] =
                      IF fail = 1
                      THEN [@ EXCEPT !.pc = "done", !.raised = "ExternalQueryFailed"]
                      ELSE [@ EXCEPT !.pc = "decide",
                                     !.array = contract_offers(threads[t].order_id),
                                     !.alone = Append(@,
                                         get_order(none_orders, threads[t].order_id,
                                                   0, 0).ret)]]
    /\ UNCHANGED <<ledger, none_orders, call, returned_none>>

\* Decide with the id cached whatever the ledger answered.
Decide_cache_always(t) ==
    /\ threads[t].pc = "decide"
    /\ none_orders' = none_orders \cup {threads[t].order_id}
    /\ threads' = [threads EXCEPT ![t] =
                      IF is_absent(@.array) THEN returns(@, None)
                      ELSE returns(@, <<order_from(@.order_id, @.array)>>)]
    /\ UNCHANGED <<ledger, call, returned_none>>

\* if array[5] is not True: self._none_orders.add(order_id); return None
\* else: return Order(...)
Decide(t) ==
    /\ threads[t].pc = "decide"
    /\ IF is_absent(threads[t].array)
       THEN /\ none_orders' = none_orders \cup {threads[t].order_id}
            /\ threads' = [threads EXCEPT ![t] = returns(@, None)]
       ELSE /\ none_orders' = none_orders
            /\ threads' = [threads EXCEPT ![t] =
                              returns(@, <<order_from(@.order_id, @.array)>>)]
    /\ UNCHANGED <<ledger, call, returned_none>>

\* The caller takes what its call returned or raised.
ThreadReturn(t) ==
    /\ threads[t].pc = "done"
    /\ threads' = [threads EXCEPT ![t] = IdleThread]
    /\ UNCHANGED <<ledger, none_orders, call, returned_none>>

\* The statements of the callers.
Callers ==
    \/ \E t \in Threads, order_id \in OrderIds : CallGetOrder(t, order_id)
    \/ \E t \in Threads : CallGetOrders(t)
    \/ \E t \in Threads, fail \in 0..1 : ReadLastId(t, fail)
    \/ \E t \in Threads : Lookup(t)
    \/ \E t \in Threads, fail \in 0..1 : Query(t, fail)
    \/ \E t \in Threads : Decide(t)
    \/ \E t \in Threads : ThreadReturn(t)

\* A new market instance on a ledger with a history: orders 1..last_offer_id
\* of one pair were created, and each is still active or already closed.
InitConc ==
    /\ \E last \in 0..MaxOrders, pay_amt \in [1..MaxOrders -> 0..MaxAmount] :
          /\ last_offer_id = last
          /\ offers = [id \in 1..MaxOrders |->
                          IF id <= last /\ pay_amt[id] > 0
                          THEN Offer(pay_amt[id], "DAI", 1, "WETH", "maker", id)
                          ELSE EmptyOffer]
    /\ none_orders = {}
    /\ call = NoCall
    /\ returned_none = {}
    /\ threads = [t \in Threads |-> IdleThread]

NextConc ==
    \/ LedgerCloses
    \/ Callers

SpecConc == InitConc /\ [][NextConc]_vars

\* The same callers on a ledger that also creates orders between their
\* statements, starting with no order.
InitInterleaved ==
    /\ last_offer_id = 0
    /\ offers = [id \in 1..MaxOrders |-> EmptyOffer]
    /\ none_orders = {}
    /\ call = NoCall
    /\ returned_none = {}
    /\ threads = [t \in Threads |-> IdleThread]

NextInterleaved ==
    \/ LedgerOnePair
    \/ Callers

SpecInterleaved == InitInterleaved /\ [][NextInterleaved]_vars

\* One caller, whose get_order and get_orders calls run statement by
\* statement while the ledger creates, fills and cancels orders in between.
OneCaller ==
    \/ \E order_id \in OrderIds : CallGetOrder(1, order_id)
    \/ CallGetOrders(1)
    \/ \E fail \in 0..1 : ReadLastId(1, fail)
    \/ Lookup(1)
    \/ \E fail \in 0..1 : Query(1, fail)
    \/ Decide(1)
    \/ ThreadReturn(1)

NextSnapshot ==
    \/ LedgerOnePair
    \/ OneCaller

SpecSnapshot == InitInterleaved /\ [][NextSnapshot]_vars

\* What a returned call should have returned: the answers its get_order calls
\* would have given run alone.
AloneResult(th) == IF th.op = "get_order" THEN th.alone[1] ELSE not_none(th.alone)

ExternalQueryFailed == "ExternalQueryFailed"

StrictlyAscending(s) == \A i \in 1..(Len(s) - 1) : s[i] < s[i + 1]

\* C1: once get_order(id) has returned None, every later get_order(id), made
\* directly or by get_orders, returns None and issues no offers query for
\* that id, whatever the ledger's state is then.
C1_AbsentStaysAbsent ==
    [][\A id \in OrderIds :
          (id \in returned_none /\ call = NoCall) =>
             /\ (call'.op = "get_order" /\ call'.order_id = id) =>
                   /\ call'.raised = ""
                   /\ call'.orders = None
                   /\ call'.queried = <<>>
             /\ call'.op = "get_orders" =>
                   /\ id \notin Range(call'.queried)
                   /\ id \notin Range(Ids(call'.orders))]_vars

\* A get_order answered None from the cache while the ledger holds an active
\* order under that id.
C1_Witness ==
    /\ call.op = "get_order"
    /\ call.order_id \in returned_none
    /\ call.orders = None
    /\ call.queried = <<>>
    /\ IsActive(call.order_id)

\* C2: get_orders returns exactly the orders with ids in 1..last_id that the
\* ledger reports active, in strictly ascending id order, none twice and none
\* skipped; with last_id = 0 the result is empty and no offers query is made.
C2_GetOrdersExact ==
    (call.op = "get_orders" /\ call.raised = "") =>
        /\ StrictlyAscending(Ids(call.orders))
        /\ Range(Ids(call.orders)) = ActiveIds
        /\ \A i \in 1..Len(call.orders) :
              call.orders[i] = order_from(call.orders[i].order_id,
                                          offers[call.orders[i].order_id])
        /\ last_offer_id = 0 => (call.orders = <<>> /\ call.queried = <<>>)

\* C3: every id in the absent-id cache is an id the ledger reports inactive,
\* and get_order returns an Order exactly when the ledger reports the id
\* active.
C3_CacheAgreesWithLedger ==
    /\ \A id \in none_orders : ~IsActive(id)
    /\ (call.op = "get_order" /\ call.raised = "") =>
          (call.orders # None <=> IsActive(call.order_id))

\* C6: a failed remote read is raised to the caller, after one attempt and
\* without a default in its place: get_order raises and leaves the id out of
\* the cache; get_orders raises, whichever of its remote calls failed, and the
\* failed call is the last one it made.
C6_FailureSurfaces ==
    /\ (call.op = "get_order" /\ call.fail = 1 /\ call.queried # <<>>) =>
          /\ call.raised = ExternalQueryFailed
          /\ call.orders = None
          /\ call.queried = <<call.order_id>>
          /\ call.order_id \notin none_orders
    /\ (/\ call.op = "get_orders"
        /\ call.fail >= 1
        /\ call.fail <= call.last_id_reads + Len(call.queried)) =>
          /\ call.raised = ExternalQueryFailed
          /\ call.orders = <<>>
          /\ call.last_id_reads + Len(call.queried) = call.fail
          /\ call.last_id_reads = 1
          /\ StrictlyAscending(call.queried)

\* get_orders raised on the query of its second id, after the first id's
\* order was found active.
C6_Witness ==
    /\ call.op = "get_orders"
    /\ call.raised = ExternalQueryFailed
    /\ call.queried = <<1, 2>>
    /\ IsActive(1)

\* C7: get_order of an id that holds no active order (never created, 0, above
\* last_id, completely taken or cancelled) returns None and raises nothing,
\* whenever the ledger answers the query or none is needed.
C7_AbsentIsNotAnError ==
    (/\ call.op = "get_order"
     /\ ~IsActive(call.order_id)
     /\ (call.fail = 0 \/ call.queried = <<>>)) =>
        /\ call.raised = ""
        /\ call.orders = None

\* get_order returned None for an order that was created and then closed,
\* after querying the ledger.
C7_Witness ==
    /\ call.op = "get_order"
    /\ call.order_id \in 1..last_offer_id
    /\ ~IsActive(call.order_id)
    /\ call.queried = <<call.order_id>>
    /\ call.raised = ""
    /\ call.orders = None

\* ------------------------------------------------------------------ the position estimator

\* Ids of the active orders of the pair whose fixed-point price is not below
\* the price of the new order.
Qualifying(pay_token, pay_amount, buy_token, buy_amount) ==
    {id \in ActiveIds :
        /\ At(offers[id], 1) = pay_token
        /\ At(offers[id], 3) = buy_token
        /\ WadDiv(At(offers[id], 0), At(offers[id], 2)) >= WadDiv(pay_amount, buy_amount)}

LedgerPrice(id) == WadDiv(At(offers[id], 0), At(offers[id], 2))

\* The orders of the example: prices 3.0, 2.0 and 1.0 at ids 10, 20 and 30.
ExampleOrders ==
    <<Order(address, 10, "maker", "DAI", 3, "WETH", 1, 1),
      Order(address, 20, "maker", "DAI", 2, "WETH", 1, 2),
      Order(address, 30, "maker", "DAI", 1, "WETH", 1, 3)>>

\* C4: position returns 0 when no active order of the pair has a price >= the
\* new order's price, and otherwise the id of an active order of the pair
\* whose price is the minimum among those with a price >= the new order's;
\* on the example, price 2.0 gives 20, 5.0 gives 0 and 0.5 gives 30.
C4_PositionIsMinimumQualifying ==
    /\ position_of(ExampleOrders, "DAI", 2, "WETH", 1).value = 20
    /\ position_of(ExampleOrders, "DAI", 5, "WETH", 1).value = 0
    /\ position_of(ExampleOrders, "DAI", 1, "WETH", 2).value = 30
    /\ (call.op = "position" /\ call.raised = "" /\ call.buy_amount > 0) =>
          LET Q == Qualifying(call.pay_token, call.pay_amount,
                              call.buy_token, call.buy_amount)
          IN  IF Q = {} THEN call.value = 0
              ELSE /\ call.value \in Q
                   /\ \A id \in Q : LedgerPrice(call.value) <= LedgerPrice(id)

\* ------------------------------------------------------------------ the create commands

\* C5: a create command with pay-amount 0 or buy-amount 0 is rejected with an
\* error for every choice of tokens, by SimpleMarket.make and by
\* MatchingMarket.make with pos omitted or given, before any remote call: no
\* ledger query is issued, no intent is built, the absent-id cache is unchanged.
C5_ZeroAmountRejected ==
    [][(/\ call = NoCall
        /\ call'.op \in {"make", "matching_make"}
        /\ (call'.pay_amount = 0 \/ call'.buy_amount = 0)) =>
          /\ call'.raised = "AssertionError"
          /\ call'.intent = <<>>
          /\ call'.queried = <<>>
          /\ call'.last_id_reads = 0
          /\ none_orders' = none_orders
          /\ ledger' = ledger]_vars

\* MatchingMarket.make with pos omitted and buy-amount 0 was rejected while
\* the ledger held active orders position would have queried.
C5_Witness ==
    /\ call.op = "matching_make"
    /\ call.pos = None
    /\ call.pay_amount > 0
    /\ call.buy_amount = 0
    /\ call.raised = "AssertionError"
    /\ ActiveIds # {}

\* ------------------------------------------------------------------ Order

One == Scale

\* C8: for every valid Order both prices are defined and their
\* fixed-point product is exactly 1.
C8_ExactReciprocal ==
    call.op = "prices" =>
        /\ call.sell_to_buy # ZeroDivisionError
        /\ call.buy_to_sell # ZeroDivisionError
        /\ WadMul(call.sell_to_buy, call.buy_to_sell) = One

\* Neither quotient of the two prices of o was truncated.
ExactQuotients(o) ==
    /\ o.pay_amount > 0
    /\ (o.pay_amount * Scale) % o.buy_amount = 0
    /\ (o.buy_amount * Scale) % o.pay_amount = 0

\* C8, up to truncation: for every valid Order sell_to_buy_price is defined;
\* buy_to_sell_price is defined exactly when pay-amount > 0; when both are
\* defined their fixed-point product never exceeds 1, and it equals 1 exactly
\* when neither quotient was truncated.
C8_ReciprocalUpToTruncation ==
    call.op = "prices" =>
        LET o == call.orders[1] IN
        /\ call.sell_to_buy # ZeroDivisionError
        /\ call.buy_to_sell # ZeroDivisionError <=> o.pay_amount > 0
        /\ o.pay_amount > 0 =>
              /\ WadMul(call.sell_to_buy, call.buy_to_sell) <= One
              /\ WadMul(call.sell_to_buy, call.buy_to_sell) = One <=> ExactQuotients(o)

\* The prices of an Order whose quotients are truncated: the product is
\* below 1.
C8_Witness ==
    /\ call.op = "prices"
    /\ call.orders[1].pay_amount > 0
    /\ ~ExactQuotients(call.orders[1])
    /\ WadMul(call.sell_to_buy, call.buy_to_sell) < One

\* C9: two Orders are equal if and only if they have the same market address
\* and the same order id, whatever their maker, tokens, amounts and
\* timestamp; and two equal Orders have equal hashes.
C9_OrderIdentity ==
    call.op = "eq" =>
        /\ call.eq <=> (/\ call.orders[1].market = call.orders[2].market
                        /\ call.orders[1].order_id = call.orders[2].order_id)
        /\ call.eq => call.hashes[1] = call.hashes[2]

\* Two Orders of the same id from different markets, found distinct.
C9_Witness ==
    /\ call.op = "eq"
    /\ call.orders[1].order_id = call.orders[2].order_id
    /\ call.orders[1].market # call.orders[2].market
    /\ call.orders[1].maker = call.orders[2].maker
    /\ ~call.eq

\* ------------------------------------------------------------------ the position hint of make

\* C11: MatchingMarket.make with positive amounts builds an offer intent whose
\* position argument is the value position() returns for the same tokens and
\* amounts when pos is None (and raises what position raises, with no
\* intent); the caller's pos when pos >= 0, with no call of position and no
\* ledger query; a negative pos is rejected with an error and no intent.
C11_MakePositionArgument ==
    [][(/\ call = NoCall
        /\ call'.op = "matching_make"
        /\ call'.pay_amount > 0
        /\ call'.buy_amount > 0) =>
          LET offer(pos) == <<"offer", call'.pay_amount, call'.pay_token,
                              call'.buy_amount, call'.buy_token, pos>>
          IN
          /\ call'.pos = None =>
                \E p \in {position(none_orders, call'.pay_token, call'.pay_amount,
                                   call'.buy_token, call'.buy_amount, call'.fail)} :
                    /\ call'.raised = p.raised
                    /\ call'.intent = IF p.raised = "" THEN offer(p.value) ELSE <<>>
                    /\ call'.queried = p.queried
                    /\ none_orders' = p.none
          /\ (call'.pos # None /\ call'.pos[1] >= 0) =>
                /\ call'.raised = ""
                /\ call'.intent = offer(call'.pos[1])
                /\ call'.queried = <<>>
                /\ call'.last_id_reads = 0
                /\ none_orders' = none_orders
          /\ (call'.pos # None /\ call'.pos[1] < 0) =>
                /\ call'.raised = "AssertionError"
                /\ call'.intent = <<>>
                /\ call'.queried = <<>>
                /\ call'.last_id_reads = 0]_vars

\* make with pos omitted built an intent with the id of an active order as
\* its position.
C11_Witness ==
    /\ call.op = "matching_make"
    /\ call.pos = None
    /\ call.raised = ""
    /\ Len(call.intent) = 6
    /\ call.intent[6] \in ActiveIds

\* ------------------------------------------------------------------ the command builders

\* C12: SimpleMarket.make, bump, take and kill issue no ledger query and no
\* submission and leave the ledger's orders and the absent-id cache unchanged;
\* each returns a handle naming the contract function (make: when its amounts
\* are positive, the case in which a command is built); take does so for
\* every quantity, zero and above the order's pay-amount included, and passes
\* the quantity on as given.
C12_BuildingDoesNotExecute ==
    [][(/\ call = NoCall
        /\ call'.op \in {"make", "bump", "take", "kill"}) =>
          /\ (call'.op = "make" => (call'.pay_amount > 0 /\ call'.buy_amount > 0)) =>
                /\ call'.raised = ""
                /\ call'.intent # <<>>
                /\ call'.intent[1] = call'.op
          /\ call'.op = "take" => call'.intent[3] = call'.pay_amount
          /\ call'.queried = <<>>
          /\ call'.last_id_reads = 0
          /\ call'.submitted = 0
          /\ ledger' = ledger
          /\ none_orders' = none_orders]_vars

\* take returned a handle for a quantity above what the active order sells,
\* on an instance whose cache holds an id.
C12_Witness ==
    /\ call.op = "take"
    /\ IsActive(call.order_id)
    /\ call.pay_amount > At(offers[call.order_id], 0)
    /\ call.raised = ""
    /\ call.intent = <<"take", int_to_bytes32(call.order_id), call.pay_amount>>
    /\ none_orders # {}

\* ------------------------------------------------------------------ the tie-break of position

\* The qualifying orders of the lowest price.
MinimumQualifying(pay_token, pay_amount, buy_token, buy_amount) ==
    LET Q == Qualifying(pay_token, pay_amount, buy_token, buy_amount)
    IN  {id \in Q : \A other \in Q : LedgerPrice(id) <= LedgerPrice(other)}

\* C13: when several active orders of the pair share the minimum qualifying
\* price, position returns the lowest order id among them.
C13_TieBreakLowestId ==
    (call.op = "position" /\ call.raised = "" /\ call.buy_amount > 0) =>
        LET M == MinimumQualifying(call.pay_token, call.pay_amount,
                                   call.buy_token, call.buy_amount)
        IN  Cardinality(M) >= 2 =>
               /\ call.value \in M
               /\ \A id \in M : call.value <= id

\* ------------------------------------------------------------------ get_orders while the ledger moves

\* C14: when creations, fills and cancellations interleave with the queries
\* of get_orders, its result is strictly ascending by id without duplicates,
\* holds only ids from 1 to the last id read at the start, and every returned
\* order is the order the ledger held, active, at the moment its id was
\* queried.
C14_NotASnapshot ==
    \A t \in Threads :
        (/\ threads[t].pc = "done"
         /\ threads[t].op = "get_orders"
         /\ threads[t].raised = "") =>
            /\ StrictlyAscending(Ids(threads[t].result))
            /\ \A i \in 1..Len(threads[t].result) :
                  LET o == threads[t].result[i] IN
                  /\ o.order_id \in 1..threads[t].last
                  /\ threads[t].alone[o.order_id] = <<o>>
                  /\ o.pay_amount > 0

\* get_orders returned an order that was cancelled or taken after its query,
\* and misses the active order created after the last id was read.
C14_Witness ==
    /\ threads[1].pc = "done"
    /\ threads[1].op = "get_orders"
    /\ threads[1].raised = ""
    /\ threads[1].result # <<>>
    /\ \A i \in 1..Len(threads[1].result) : ~IsActive(threads[1].result[i].order_id)
    /\ last_offer_id > threads[1].last
    /\ IsActive(last_offer_id)

====
